---- MODULE Spec2Model ----
(***************************************************************************)
(* indexconverter.py: convert a four-column CSV index (TOPIC, BK#, PG#,    *)
(* COMMENTS) into a Word document grouped under alphabetic headings.       *)
(*                                                                         *)
(* Text is modelled as Python 3 str values: sequences of Unicode code      *)
(* points.  A CSV row, as csv.reader yields it, is a sequence of such      *)
(* strings.  The document builder (python-docx) is opaque: the model       *)
(* records the calls made on it, in order, with their arguments.           *)
(***************************************************************************)
EXTENDS Integers, Sequences, FiniteSets

VARIABLES
    csvExists,   \* os.path.isfile(args.csvfile) when the program starts
    rows,        \* the rows csv.reader yields for the file (<<>>: size 0)
    docExists,   \* os.path.isfile(docfile) when the program starts
    pc,          \* position in the program
    nread,       \* number of rows consumed from csvin
    csvsorted,   \* main(): csvsorted
    idx,         \* rows of csvsorted the for loop has taken
    currltr,     \* main(): currltr
    page,        \* section settings, footer and styles of the document
    calls,       \* calls on the document body, print and save, in order
    disk,        \* documents written to docfile by this run, in order
    status,      \* exit status (-1 while running)
    err          \* what ended the run, "" if nothing did

vars == <<csvExists, rows, docExists, pc, nread, csvsorted, idx, currltr,
          page, calls, disk, status, err>>

\* Largest number of rows in the input file.
MaxRows == 3

\* sys.version_info.major of the interpreter the shebang line names.
major == 3

(***************************************************************************)
(* Text                                                                    *)
(***************************************************************************)

\* str.lower() of one character.  A-Z have a lower-case form; U+00DF
\* (sharp s) is already lower case.
lowerChar(c) ==
    IF c \in 65..90 THEN <<c + 32>>
    ELSE <<c>>

\* str.upper() of one character.  U+00DF upper-cases to "SS".
upperChar(c) ==
    IF c \in 97..122 THEN <<c - 32>>
    ELSE IF c = 223 THEN <<83, 83>>
    ELSE <<c>>

\* str.casefold() of one character: lower-casing, except that U+00DF
\* folds to "ss".
casefoldChar(c) ==
    IF c = 223 THEN <<115, 115>>
    ELSE lowerChar(c)

RECURSIVE lower(_)
\* str.lower()
lower(s) ==
    IF s = <<>> THEN <<>>
    ELSE lowerChar(Head(s)) \o lower(Tail(s))

RECURSIVE upper(_)
\* str.upper()
upper(s) ==
    IF s = <<>> THEN <<>>
    ELSE upperChar(Head(s)) \o upper(Tail(s))

RECURSIVE casefold(_)
\* str.casefold()
casefold(s) ==
    IF s = <<>> THEN <<>>
    ELSE casefoldChar(Head(s)) \o casefold(Tail(s))

\* s < t on str: the first differing character decides, by code point; a
\* proper prefix is smaller.
StrLess(s, t) ==
    \E k \in 1..(Len(s) + 1) :
        /\ k <= Len(t)
        /\ \A j \in 1..(k - 1) : s[j] = t[j]
        /\ (k = Len(s) + 1 \/ s[k] < t[k])

(***************************************************************************)
(* Row Sorter                                                              *)
(***************************************************************************)

\* A sort key that compares topic and comment as written.
keyAsWritten(row) == <<row[1], row[2], row[3], row[4]>>

\* The sort key of a row (raises IndexError on a row with fewer than 4
\* fields: see Malformed).
key(row) ==
    IF major = 2
    THEN <<lower(row[1]), row[2], row[3], lower(row[4])>>
    ELSE <<casefold(row[1]), row[2], row[3], casefold(row[4])>>

\* k1 < k2 on key tuples: the first differing component decides.
KeyLess(k1, k2) ==
    \E k \in 1..4 :
        /\ \A j \in 1..(k - 1) : k1[j] = k2[j]
        /\ StrLess(k1[k], k2[k])

\* The key function indexes row[0]..row[3].
Malformed(row) == Len(row) < 4

\* x put before the elements equal to it: a sort that is not stable.
InsertBeforeEqual(s, x) ==
    LET p == Cardinality({i \in 1..Len(s) : KeyLess(key(s[i]), key(x))})
    IN  SubSeq(s, 1, p) \o <<x>> \o SubSeq(s, p + 1, Len(s))

\* x put into the sorted sequence s after every element not greater than it.
Insert(s, x) ==
    LET p == Cardinality({i \in 1..Len(s) : ~KeyLess(key(x), key(s[i]))})
    IN  SubSeq(s, 1, p) \o <<x>> \o SubSeq(s, p + 1, Len(s))

RECURSIVE sorted(_)
\* sorted(csvin, key=...): ascending by key, stable.
sorted(s) ==
    IF s = <<>> THEN <<>>
    ELSE Insert(sorted(SubSeq(s, 1, Len(s) - 1)), s[Len(s)])

(***************************************************************************)
(* Inputs                                                                  *)
(***************************************************************************)

\* Rows an input file may hold.
RowPool ==
    { << <<97>>,       <<50>>, <<49, 48>>, <<120>> >>,  \* a,2,10,x
      << <<65>>,       <<50>>, <<49, 48>>, <<88>>  >>,  \* A,2,10,X
      << <<65>>,       <<50>>, <<57>>,     <<121>> >>,  \* A,2,9,y
      << <<90>>,       <<49>>, <<53>>,     <<100>> >>,  \* Z,1,5,d
      << <<49, 122>>,  <<49>>, <<49>>,     <<110>> >>,  \* 1z,1,1,n
      << <<123>>,      <<49>>, <<49>>,     <<112>> >>,  \* {,1,1,p
      << <<223>>,      <<49>>, <<49>>,     <<102>> >>,  \* sharp s,1,1,f
      << <<116>>,      <<49>>, <<49>>,     <<103>> >>,  \* t,1,1,g
      << <<96>>,       <<49>>, <<49>>,     <<119>> >>,  \* `,1,1,w
      << <<99>>,       <<49>> >>,                       \* c,1
      << <<99>>, <<49>>, <<49>>, <<120>>, <<120>> >>,   \* c,1,1,x,x
      << <<>>,         <<49>>, <<49>>,     <<113>> >> } \* ,1,1,q

\* All sequences over S of length at most n.
SeqsUpTo(S, n) == UNION {[1..k -> S] : k \in 0..n}

(***************************************************************************)
(* Literals                                                                *)
(***************************************************************************)

\* args.csvfile: "i.csv"
csvfile == <<105, 46, 99, 115, 118>>

\* os.path.splitext(p)[0]: p up to its last dot, when that dot follows the
\* last "/" and a character other than a dot stands between them.
splitextRoot(p) ==
    LET dots == {i \in 1..Len(p) : p[i] = 46}
        seps == {i \in 1..Len(p) : p[i] = 47}
        sep  == IF seps = {} THEN 0
                ELSE CHOOSE i \in seps : \A j \in seps : j <= i
        last == IF dots = {} THEN 0
                ELSE CHOOSE i \in dots : \A j \in dots : j <= i
    IN  IF last > sep /\ \E j \in (sep + 1)..(last - 1) : p[j] # 46
        THEN SubSeq(p, 1, last - 1)
        ELSE p

\* docfile = os.path.splitext(args.csvfile)[0]+".docx"
docfile == splitextRoot(csvfile) \o <<46, 100, 111, 99, 120>>

\* "Processing:  "
ProcessingPrefix == <<80, 114, 111, 99, 101, 115, 115, 105, 110, 103, 58, 32, 32>>

\* "Document created:  "
CreatedPrefix ==
    <<68, 111, 99, 117, 109, 101, 110, 116, 32,
      99, 114, 101, 97, 116, 101, 100, 58, 32, 32>>

\* "#"
Hash == <<35>>

\* "`"
Backtick == <<96>>

(***************************************************************************)
(* Document builder calls                                                  *)
(***************************************************************************)

\* document.add_heading(text, level=0)
Heading(text) ==
    [kind |-> "heading", text |-> text, start |-> "", runs |-> <<>>]

\* document.add_section(WD_SECTION.ODD_PAGE)
OddPageSection ==
    [kind |-> "section", text |-> <<>>, start |-> "ODD_PAGE", runs |-> <<>>]

Run(text, bold, italic, color) ==
    [text |-> text, bold |-> bold, italic |-> italic, color |-> color]

\* A marker with book and page exchanged.
MarkerPageFirst(row) ==
    <<32, 91, 98>> \o row[3] \o <<47, 112>> \o row[2] \o <<93, 32>>

\* The location marker " [b"+row[1]+"/p"+row[2]+"] ".
Marker(row) == <<32, 91, 98>> \o row[2] \o <<47, 112>> \o row[3] \o <<93, 32>>

\* document.add_paragraph() and its three runs.
Paragraph(row) ==
    [kind |-> "paragraph", text |-> <<>>, start |-> "",
     runs |-> << Run(row[1], TRUE, FALSE, "1667FF"),
                 Run(Marker(row), FALSE, TRUE, ""),
                 Run(row[4], FALSE, FALSE, "") >>]

\* The heading text of a topic: its first character upper-cased, then
\* lower-cased.
Letters(topic) == upper(<<topic[1]>>) \o lower(<<topic[1]>>)

\* add_page_numbers: "Page ", PAGE field, " of ", NUMPAGES field.
Footer ==
    << [text |-> "Page ", field |-> ""],
       [text |-> "", field |-> "PAGE"],
       [text |-> " of ", field |-> ""],
       [text |-> "", field |-> "NUMPAGES"] >>

\* print(text)
print(text) ==
    [kind |-> "print", text |-> text, start |-> "", runs |-> <<>>]

\* document.save(docfile)
Save(path) ==
    [kind |-> "save", text |-> path, start |-> "", runs |-> <<>>]

IsBody(c) == c.kind \in {"heading", "section", "paragraph"}

IsPrint(c) == c.kind = "print"

\* The body of the document object: what was added to it, in order.
document == SelectSeq(calls, IsBody)

\* Standard output: the lines printed, in order.
out == LET p == SelectSeq(calls, IsPrint)
       IN  [i \in 1..Len(p) |-> p[i].text]

\* Section settings and styles set before the rows are added.
PageSetup ==
    [footer |-> Footer, align |-> "CENTER", margins |-> "0.75in",
     cols |-> "2", titlePt |-> "32", normalPt |-> "10",
     normalFont |-> "Times New Roman"]

NoPage ==
    [footer |-> <<>>, align |-> "", margins |-> "", cols |-> "",
     titlePt |-> "", normalPt |-> "", normalFont |-> ""]

(***************************************************************************)
(* The program                                                             *)
(***************************************************************************)

Init ==
    /\ csvExists \in BOOLEAN
    /\ rows \in SeqsUpTo(RowPool, MaxRows)
    /\ (~csvExists => rows = <<>>)
    /\ docExists \in BOOLEAN
    /\ pc = "start"
    /\ nread = 0
    /\ csvsorted = <<>>
    /\ idx = 0
    /\ currltr = <<>>
    /\ page = NoPage
    /\ calls = <<>>
    /\ disk = <<>>
    /\ status = -1
    /\ err = ""

\* parser.error(message): usage error, exit status 2.
ParserError(message) ==
    /\ pc' = "exit"
    /\ status' = 2
    /\ err' = message

\* An uncaught exception: traceback, exit status 1.
Raise(exception) ==
    /\ pc' = "exit"
    /\ status' = 1
    /\ err' = exception

\* The __main__ block: the checks on the CSV file, then main().
CheckArgs ==
    /\ pc = "start"
    /\ IF ~csvExists
       THEN ParserError("CSV file does not exist.")
       ELSE IF rows = <<>>
       THEN ParserError("CSV file is empty.")
       ELSE pc' = "sort" /\ UNCHANGED <<status, err>>
    /\ UNCHANGED <<csvExists, rows, docExists, nread, csvsorted, idx,
                   currltr, page, calls, disk>>

\* main(): read the rows and sort them.
SortRows ==
    /\ pc = "sort"
    /\ nread' = Len(rows)
    /\ IF \E i \in 1..Len(rows) : Malformed(rows[i])
       THEN Raise("IndexError") /\ UNCHANGED csvsorted
       ELSE /\ csvsorted' = sorted(rows)
            /\ pc' = "check"
            /\ UNCHANGED <<status, err>>
    /\ UNCHANGED <<csvExists, rows, docExists, idx, currltr, page,
                   calls, disk>>

\* The document is created whether or not docfile exists.
CheckDocfileSkipped ==
    /\ pc = "check"
    /\ pc' = "create"
    /\ UNCHANGED <<csvExists, rows, docExists, nread, csvsorted, idx,
                   currltr, page, calls, disk, status, err>>

\* main(): set the .docx filename and check if it exists.
CheckDocfile ==
    /\ pc = "check"
    /\ IF docExists
       THEN ParserError("already exists.")
       ELSE pc' = "create" /\ UNCHANGED <<status, err>>
    /\ UNCHANGED <<csvExists, rows, docExists, nread, csvsorted, idx,
                   currltr, page, calls, disk>>

\* main(): create the document, its settings and styles, the "#" heading.
CreateDocument ==
    /\ pc = "create"
    /\ page' = PageSetup
    /\ currltr' = Backtick
    /\ calls' = <<Heading(Hash), print(ProcessingPrefix \o Hash)>>
    /\ pc' = "loop"
    /\ UNCHANGED <<csvExists, rows, docExists, nread, csvsorted, idx,
                   disk, status, err>>

\* A test for a letter other than the current one.
NewLetterDiffers(row, cur) == lower(<<row[1][1]>>) # cur

\* A test that also takes the current letter for a new one.
NewLetterOrSame(row, cur) == ~StrLess(lower(<<row[1][1]>>), cur)

\* The test for a new letter: row[0][0].lower() > currltr.
NewLetter(row, cur) == StrLess(cur, lower(<<row[1][1]>>))

\* A new group that opens its section before reporting it.
GroupCallsSectionFirst(row) ==
    << OddPageSection,
       print(ProcessingPrefix \o Letters(row[1])),
       Heading(Letters(row[1])) >>

\* The calls that open a new group: the progress line, the section that
\* starts on an odd page, the heading.
GroupCalls(row) ==
    << print(ProcessingPrefix \o Letters(row[1])),
       OddPageSection,
       Heading(Letters(row[1])) >>

\* main(): one pass of the for loop over csvsorted.
ProcessRow ==
    /\ pc = "loop"
    /\ idx < Len(csvsorted)
    /\ LET row == csvsorted[idx + 1]
       IN  IF row[1] = <<>>
           THEN /\ Raise("IndexError")
                /\ UNCHANGED <<idx, currltr, calls>>
           ELSE /\ IF NewLetter(row, currltr)
                   THEN /\ currltr' = lower(<<row[1][1]>>)
                        /\ calls' = calls \o GroupCalls(row) \o
                                       <<Paragraph(row)>>
                   ELSE /\ calls' = Append(calls, Paragraph(row))
                        /\ UNCHANGED currltr
                /\ idx' = idx + 1
                /\ UNCHANGED <<pc, status, err>>
    /\ UNCHANGED <<csvExists, rows, docExists, nread, csvsorted, page, disk>>

\* The document is saved before the loop has taken every row.
SaveDocumentEarly ==
    /\ pc = "loop"
    /\ idx <= Len(csvsorted)
    /\ disk' = Append(disk, document)
    /\ calls' = calls \o <<Save(docfile), print(CreatedPrefix \o docfile)>>
    /\ pc' = "done"
    /\ status' = 0
    /\ UNCHANGED <<csvExists, rows, docExists, nread, csvsorted, idx,
                   currltr, page, err>>

\* main(): save the document and report it.
SaveDocument ==
    /\ pc = "loop"
    /\ idx = Len(csvsorted)
    /\ disk' = Append(disk, document)
    /\ calls' = calls \o <<Save(docfile), print(CreatedPrefix \o docfile)>>
    /\ pc' = "done"
    /\ status' = 0
    /\ UNCHANGED <<csvExists, rows, docExists, nread, csvsorted, idx,
                   currltr, page, err>>

Next ==
    \/ CheckArgs
    \/ SortRows
    \/ CheckDocfile
    \/ CreateDocument
    \/ ProcessRow
    \/ SaveDocument

Spec == Init /\ [][Next]_vars

(***************************************************************************)
(* Properties of the Row Sorter                                            *)
(***************************************************************************)

\* sorted() has just returned.
SortReturned == pc = "check"

\* Every row of the input has exactly four fields.
FourFields == \A i \in 1..Len(rows) : Len(rows[i]) = 4

\* SortKey of the specification.
SortKey(row) == <<casefold(row[1]), row[2], row[3], casefold(row[4])>>

\* b is a permutation of a, ascending by SortKey, rows of equal SortKey in
\* their order in a.
IsStableSortOf(a, b) ==
    /\ Len(a) = Len(b)
    /\ \E f \in [1..Len(b) -> 1..Len(a)] :
        /\ \A i, j \in 1..Len(b) : f[i] = f[j] => i = j
        /\ \A i \in 1..Len(b) : b[i] = a[f[i]]
        /\ \A i, j \in 1..Len(b) :
              i < j =>
                /\ ~KeyLess(SortKey(b[j]), SortKey(b[i]))
                /\ SortKey(b[i]) = SortKey(b[j]) => f[i] < f[j]

Thm_C9 == (SortReturned /\ FourFields) => sorted(csvsorted) = csvsorted

\* Input Z, a/2/10/x, A/2/10/X: the sort moved Z behind two rows of equal
\* key.
Wit_C9 ==
    /\ pc = "check"
    /\ Len(rows) = 3
    /\ rows[1][1] = <<90>>
    /\ csvsorted[3] = rows[1]
    /\ SortKey(csvsorted[1]) = SortKey(csvsorted[2])
    /\ csvsorted[1] # csvsorted[2]

\* A letter: A-Z, a-z, sharp s.
IsAlphabetic(c) == c \in (65..90) \union (97..122) \union {223}

\* C7: in the sorted sequence every row whose topic begins with a
\* non-alphabetic character precedes every row whose topic begins with an
\* alphabetic character.
Cex_C7 ==
    SortReturned =>
        \A i, j \in 1..Len(csvsorted) :
            ( /\ csvsorted[i][1] # <<>>
              /\ csvsorted[j][1] # <<>>
              /\ ~IsAlphabetic(csvsorted[i][1][1])
              /\ IsAlphabetic(csvsorted[j][1][1]) ) => i < j

\* C2: an input holding a row without exactly four fields ends in a
\* failure, and no document is persisted.
Cex_C2 == ~FourFields => (disk = <<>> /\ status # 0)

(***************************************************************************)
(* Properties of the Document Assembler                                    *)
(***************************************************************************)

\* The document object exists: its "#" heading has been added.
Built == document # <<>>

Positions(kind) ==
    LET d == document
    IN  {i \in 1..Len(d) : d[i].kind = kind}

NParas == Cardinality(Positions("paragraph"))

\* The position in the document of the paragraph of the k-th sorted row.
ParaAt(k) ==
    LET ps == Positions("paragraph")
    IN  CHOOSE i \in ps : Cardinality({j \in ps : j <= i}) = k

\* The lower-cased leading character of the k-th sorted row.
Lead(k) == lower(<<csvsorted[k][1][1]>>)

\* A section break and a heading stand right before the k-th paragraph.
BoundaryBefore(k) ==
    LET d == document
        p == ParaAt(k)
    IN  /\ p > 2
        /\ d[p - 1].kind = "heading"
        /\ d[p - 2].kind = "section"

\* The k-th row's leading character is greater than "`" and than that of
\* every earlier row.
IsRecord(k) ==
    /\ StrLess(Backtick, Lead(k))
    /\ \A j \in 1..(k - 1) : StrLess(Lead(j), Lead(k))

\* C3, as amended: a section boundary stands before the k-th row exactly
\* when its lower-cased leading character is greater than "`" and than that
\* of every earlier row; there is no other section break.
Thm_C3 ==
    Built =>
        /\ NParas = idx
        /\ \A k \in 1..idx : BoundaryBefore(k) <=> IsRecord(k)
        /\ Cardinality(Positions("section")) =
               Cardinality({k \in 1..idx : IsRecord(k)})

\* Sorted rows 1z, a, Z: no boundary before the digit row, one before each
\* of the two letters.
Wit_C3 ==
    /\ pc = "done"
    /\ idx = 3
    /\ csvsorted[1][1] = <<49, 122>>
    /\ ~BoundaryBefore(1)
    /\ BoundaryBefore(2)
    /\ BoundaryBefore(3)

\* C3, as stated: a section boundary stands before a row exactly when its
\* case-folded leading character differs from the previous row's (the first
\* row opening a section), one boundary per distinct leading character.
Cex_C3 ==
    Built =>
        /\ \A k \in 1..idx :
              BoundaryBefore(k) <=>
                  (k = 1 \/ casefold(<<csvsorted[k][1][1]>>) #
                            casefold(<<csvsorted[k - 1][1][1]>>))
        /\ Cardinality(Positions("section")) =
               Cardinality({casefold(<<csvsorted[k][1][1]>>) : k \in 1..idx})

\* The text of the last heading before position p of the document.
HeadingOver(p) ==
    LET d  == document
        hs == {i \in 1..(p - 1) : d[i].kind = "heading"}
    IN  d[CHOOSE i \in hs : \A j \in hs : j <= i].text

\* The leading character of a topic upper-cased, then lower-cased.
UpperLower(topic) == upper(<<topic[1]>>) \o lower(<<topic[1]>>)

\* The heading of the group the k-th row falls in: that of the last row up
\* to k that opened a section, "#" when there is none.
GroupHeading(k) ==
    LET rs == {j \in 1..k : IsRecord(j)}
    IN  IF rs = {} THEN Hash
        ELSE UpperLower(csvsorted[CHOOSE j \in rs : \A i \in rs : i <= j][1])

\* The k-th paragraph is the k-th sorted row in three runs, topic, marker
\* and comment, reading "<topic> [b<book>/p<page>] <comment>".
RowParagraph(k) ==
    LET par == document[ParaAt(k)]
        row == csvsorted[k]
    IN  /\ Len(par.runs) = 3
        /\ par.runs[1].text = row[1]
        /\ par.runs[2].text =
               <<32, 91, 98>> \o row[2] \o <<47, 112>> \o row[3] \o <<93, 32>>
        /\ par.runs[3].text = row[4]

\* C6, as amended: each sorted row yields one paragraph, in sorted order,
\* of the three runs, under the heading of its group: its own letters when
\* the row opened a section, the heading already current otherwise ("#"
\* before any section).
Thm_C6 ==
    Built =>
        /\ NParas = idx
        /\ pc = "done" => idx = Len(csvsorted)
        /\ \A k \in 1..idx :
              /\ RowParagraph(k)
              /\ HeadingOver(ParaAt(k)) = GroupHeading(k)

\* Sorted rows 1z, a, Z: the digit row under "#", then "Aa", then "Zz".
Wit_C6 ==
    /\ pc = "done"
    /\ Len(document) = 8
    /\ document[2].kind = "paragraph"
    /\ document[2].runs[1].text = <<49, 122>>
    /\ document[4].text = <<65, 97>>
    /\ document[7].text = <<90, 122>>

\* C6, as stated: each paragraph lies under the heading formed from its own
\* row's leading character.
Cex_C6 ==
    Built =>
        /\ NParas = idx
        /\ pc = "done" => idx = Len(csvsorted)
        /\ \A k \in 1..idx :
              /\ RowParagraph(k)
              /\ HeadingOver(ParaAt(k)) = UpperLower(csvsorted[k][1])

\* The run has ended.
Ended == pc \in {"exit", "done"}

\* C4, as amended: when docfile exists at the start, nothing is written,
\* no document is created and no row is added to one, and the run ends
\* with a non-zero status; when it ends on the existence check, the rows
\* have been read and sorted.
Thm_C4 ==
    docExists =>
        /\ disk = <<>>
        /\ calls = <<>>
        /\ page = NoPage
        /\ Ended => status \in {1, 2}
        /\ err = "already exists." =>
              (nread = Len(rows) /\ Len(csvsorted) = Len(rows))

\* The run ended on the existence check, after the rows were read and
\* sorted.
Wit_C4 ==
    /\ docExists
    /\ pc = "exit"
    /\ err = "already exists."
    /\ nread = Len(rows)
    /\ Len(csvsorted) = 3
    /\ csvsorted # rows

\* C4, as stated: when docfile exists at the start, nothing is written, the
\* run ends with a non-zero status, and no row is read or sorted.
Cex_C4 ==
    docExists =>
        /\ disk = <<>>
        /\ calls = <<>>
        /\ Ended => status \in {1, 2}
        /\ nread = 0
        /\ csvsorted = <<>>

SaveCalls == {i \in 1..Len(calls) : calls[i].kind = "save"}

PrintsUpTo(i) == Cardinality({j \in 1..i : calls[j].kind = "print"})

\* The progress output and the order of the calls, for progress lines that
\* begin with prefix: the start line prefix + "#"; at each section break the
\* line prefix + letters right before it, the heading of those letters (the
\* leading character of the next row, upper- then lower-cased) right after
\* it, then that row's paragraph; nothing else printed until the document
\* is saved, and then one line.
Progress(prefix) ==
    /\ calls[1] = Heading(Hash)
    /\ calls[2] = print(prefix \o Hash)
    /\ out[1] = prefix \o Hash
    /\ Len(out) = 1 + Cardinality(Positions("section")) +
                      (IF pc = "done" THEN 1 ELSE 0)
    /\ \A i \in 3..Len(calls) :
          /\ calls[i].kind = "section" =>
                /\ calls[i].start = "ODD_PAGE"
                /\ calls[i - 1] = print(prefix \o calls[i + 1].text)
                /\ calls[i + 1].kind = "heading"
                /\ calls[i + 2].kind = "paragraph"
                /\ calls[i + 1].text = UpperLower(calls[i + 2].runs[1].text)
          /\ calls[i].kind = "heading" => calls[i - 1].kind = "section"
          /\ calls[i].kind = "print" =>
                \/ i < Len(calls) /\ calls[i + 1].kind = "section"
                \/ i = Len(calls) /\ calls[i - 1].kind = "save"
          /\ calls[i].kind = "save" => (i = Len(calls) - 1 /\ pc = "done")
    /\ pc = "done" => calls[Len(calls) - 1].kind = "save"

\* C8, as amended: the progress lines read "Processing:  " (two spaces)
\* followed by "#" or the letters.
Thm_C8 ==
    Built =>
        Progress(<<80, 114, 111, 99, 101, 115, 115, 105, 110, 103, 58, 32, 32>>)

\* Sorted rows a, Z, {, saved: three groups after "#", five lines printed.
Wit_C8 ==
    /\ pc = "done"
    /\ Cardinality(Positions("section")) = 3
    /\ PrintsUpTo(Len(calls)) = 5
    /\ calls[Len(calls)].kind = "print"

\* C8, as stated: the progress lines read "Processing: " (one space)
\* followed by "#" or the letters.
Cex_C8 ==
    Built =>
        Progress(<<80, 114, 111, 99, 101, 115, 115, 105, 110, 103, 58, 32>>)

\* The headings: "#" first and once, then letters (a heading's last
\* character is its lower-cased letter) in increasing order.
HeadingsIncrease ==
    LET d  == document
        hs == Positions("heading")
        letter(i) == <<d[i].text[Len(d[i].text)]>>
    IN  /\ d[1] = Heading(Hash)
        /\ \A i \in hs :
              /\ i > 1 => StrLess(Backtick, letter(i))
              /\ \A j \in hs :
                    (1 < i /\ i < j) => StrLess(letter(i), letter(j))

\* One step of the scan: the cursor is only replaced by a greater
\* character, and a row whose lower-cased leading character is not greater
\* than the cursor adds its paragraph and nothing else.
CursorStep ==
    /\ (currltr # <<>> /\ currltr' # currltr) => StrLess(currltr, currltr')
    /\ (pc = "loop" /\ idx' = idx + 1 /\ ~StrLess(currltr, Lead(idx + 1))) =>
          /\ currltr' = currltr
          /\ Len(calls') = Len(calls) + 1
          /\ SubSeq(calls', 1, Len(calls)) = calls
          /\ calls'[Len(calls')].kind = "paragraph"

\* C10: the cursor starts at "`" and only grows; the headings are "#" and
\* then strictly increasing letters; a row not greater than the cursor opens
\* no section and is added under the current heading.
Thm_C10 ==
    /\ [](pc = "loop" /\ idx = 0 => currltr = Backtick)
    /\ [](Built => HeadingsIncrease)
    /\ [][CursorStep]_vars

\* Sorted rows a, sharp s, t: the cursor is at sharp s, and t, which is not
\* greater, was added under that heading.
Wit_C10 ==
    /\ pc = "loop"
    /\ idx = 3
    /\ currltr = <<223>>
    /\ csvsorted[1][1] = <<97>>
    /\ csvsorted[3][1] = <<116>>
    /\ document[Len(document)].kind = "paragraph"
    /\ document[Len(document) - 1].kind = "paragraph"
    /\ HeadingOver(Len(document)) = <<83, 83, 223>>

====
